---- MODULE Spec2Model ----
(***************************************************************************)
(* A model of src/local.c (shadowsocks-libev, ss-local): the SOCKS5        *)
(* handshake of the inbound side, the pairing with a remote endpoint, the  *)
(* two relay pumps with their watchers and timers, and the connection      *)
(* registry.  One action per libev callback; a callback is atomic because  *)
(* the reactor is single threaded.                                         *)
(***************************************************************************)
EXTENDS Integers, Sequences, FiniteSets, TLC

\* ------------------------------------------------------------------ bounds
\* The session slots the listener may fill (each accept takes a fresh slot).
Sessions == {1, 2}
\* Largest number of payload bytes one recv returns.
MaxRead == 2
\* Payload bytes the client sends after the request, in total.
MaxPayload == 2
\* Bytes the upstream sends, in total.
MaxUp == 2
\* Largest number of bytes a short send accepts.
MaxShort == 1
\* Bytes that may follow the SOCKS5 request in the same read.
MaxTrail == 1
\* Longest domain name of a request.
MaxName == 1
\* With several sessions: the payload bytes of each client, and the bytes of
\* each upstream, in total.
ManyPayload == 0
ManyUp == 1
\* Most bytes of a request that its first read may miss.
MaxCut == 2
\* Most payload bytes read together with a request to a domain name.
MaxExtra == 1

\* ------------------------------------------------------- program constants
BUF_SIZE == 2048
\* char host[256]
HOST_SIZE == 256
SVERSION == 5
CMD_NOT_SUPPORTED == 7

Min(a, b) == IF a < b THEN a ELSE b

\* ------------------------------------------------------------ byte streams
\* The i-th payload byte of the client and the i-th byte of the upstream.
ClientByte(i) == 64 + i
UpByte(i) == 160 + i
ClientBytes(from, n) == [i \in 1..n |-> ClientByte(from + i)]
UpBytes(from, n) == [i \in 1..n |-> UpByte(from + i)]

\* memcpy/recv of chunk to the start of buf: the bytes behind it stay.
Overwrite(buf, chunk) == chunk \o SubSeq(buf, Len(chunk) + 1, Len(buf))

IsPrefix(a, b) == Len(a) <= Len(b) /\ a = SubSeq(b, 1, Len(a))

\* ------------------------------------------------------------------ cipher
\* The stream cipher: byte i of a direction is combined with keystream
\* byte i, the context holding the position reached.
KeyStream(pos) == (17 * (pos + 1)) % 256
EncByte(b, pos) == (b + KeyStream(pos)) % 256
DecByte(b, pos) == (b - KeyStream(pos)) % 256
\* ss_encrypt / ss_decrypt on the first r bytes of buf, context at pos.
ss_encrypt(buf, r, pos) == [i \in 1..Len(buf) |-> IF i <= r THEN EncByte(buf[i], pos + i - 1) ELSE buf[i]]
ss_decrypt(buf, r, pos) == [i \in 1..Len(buf) |-> IF i <= r THEN DecByte(buf[i], pos + i - 1) ELSE buf[i]]
\* A whole stream through a fresh context.
EncStream(p) == ss_encrypt(p, Len(p), 0)
DecStream(p) == ss_decrypt(p, Len(p), 0)

\* ------------------------------------------------------------------ SOCKS5
IPv4Addr == <<127, 0, 0, 1>>
IPv6Addr == [i \in 1..16 |-> 32 + i]
DstPort == <<0, 80>>
DomainName(n) == [i \in 1..n |-> 96 + i]
\* The inbound socket's bound address, as getsockname returns it.
BoundAddr == <<127, 0, 0, 1>>
BoundPort == <<4, 56>>

ReqAddr(atyp, nlen) ==
  CASE atyp = 1 -> IPv4Addr \o DstPort
    [] atyp = 3 -> <<nlen>> \o DomainName(nlen) \o DstPort
    [] atyp = 4 -> IPv6Addr \o DstPort
    [] OTHER -> IPv4Addr \o DstPort

\* A request as the client sends it, followed by trail payload bytes.
MkRequest(cmd, atyp, nlen, trail) == <<SVERSION, cmd, 0, atyp>> \o ReqAddr(atyp, nlen) \o ClientBytes(0, trail)

Requests ==
  { MkRequest(cmd, atyp, nlen, trail) :
      cmd \in {1, 2, 3}, atyp \in {1, 3, 4, 5}, nlen \in 1..MaxName, trail \in 0..MaxTrail }

\* A CONNECT whose last bytes are not in the read that stage 1 parses.
CutRequests ==
  { SubSeq(MkRequest(1, 1, 1, 0), 1, Len(MkRequest(1, 1, 1, 0)) - c) : c \in 1..MaxCut }

\* What the bytes of a malloc'ed buffer that were never written may hold.
Uninit == {0, 255}
\* The memory stage 1 parses: the bytes of the buffer, and behind them bytes
\* never written.
BufView(buf, fill) == buf \o [i \in 1..(4 + 1 + 16 + 2) |-> fill]
\* What a send hands to the socket from behind the end of a buffer.
OverRead == <<255>>

\* The requests of the clients when several sessions run.
FewRequests == { MkRequest(cmd, atyp, 1, 0) : cmd \in {1, 2, 3}, atyp \in {1, 5} }

\* The requests of the clients when the shutdown is followed.
SweepRequests == { MkRequest(1, 1, 1, 0) }

Greetings == { <<SVERSION, 1, 0>>, <<4, 1>> }

\* struct method_select_response {ver, method}
MethodSelectResponse_m == <<SVERSION, 255>>
MethodSelectResponse == <<SVERSION, 0>>
\* struct socks5_response {ver, rep, rsv, atyp} of the unsupported command
CmdErrorResponse == <<SVERSION, CMD_NOT_SUPPORTED, 0, 1>>
\* The reply of stage 1: the response, sin_addr and sin_port.
FakeReply(addr, port) == <<SVERSION, 0, 0, 1>> \o addr \o port
ZeroAddr == <<0, 0, 0, 0>>
ZeroPort == <<0, 0>>

\* The length of the shadowsocks address header built from a request.
AddrLen(buf) ==
  CASE buf[4] = 1 -> 1 + 4 + 2
    [] buf[4] = 3 -> 1 + 1 + buf[5] + 2
    [] buf[4] = 4 -> 1 + 16 + 2
    [] OTHER -> 0

\* ss_addr_to_send, the shadowsocks address header built from a request.
AddrHeader(buf) ==
  CASE buf[4] = 1 -> <<buf[4]>> \o SubSeq(buf, 5, 4 + 4 + 2)
    [] buf[4] = 3 -> <<buf[4], buf[5]>> \o SubSeq(buf, 6, 5 + buf[5] + 2)
    [] buf[4] = 4 -> <<buf[4]>> \o SubSeq(buf, 5, 4 + 16 + 2)
    [] OTHER -> <<>>

\* ------------------------------------------------------------------- state
VARIABLES
  S,            \* per session slot: the server endpoint, its remote, the history
  connections,  \* the registry: the list of server endpoints, in list order
  fast_open,    \* static int fast_open
  acl,          \* int acl
  udprelay,     \* int udprelay
  crashed,      \* the process died on a null dereference
  env,          \* the environment: "one" client with long streams, "many", or "sweep"
  running,      \* the reactor loop runs (ev_run has not been broken)
  curr,         \* free_connections' cursor over the registry
  hdr           \* the locals of stage 1 while it builds the address header

vars == <<S, connections, fast_open, acl, udprelay, crashed, env, running, curr, hdr>>

\* The locals of stage 1 when no request is being parsed.
NoHeader ==
  [ pc |-> "none", len_byte |-> 0, r |-> 0, verbose |-> FALSE, hit |-> FALSE,
    name_len |-> 0, addr_len |-> 0, direct |-> FALSE,
    w_addr |-> {}, w_host |-> {}, w_buf |-> {} ]

\* What the clients and the upstreams offer, by the environment.
EnvRequests == IF env = "one" THEN Requests \cup CutRequests ELSE IF env = "many" THEN FewRequests ELSE SweepRequests
EnvPayload == IF env = "one" THEN MaxPayload ELSE ManyPayload
EnvUp == IF env = "one" THEN MaxUp ELSE ManyUp
EnvSessions == IF env = "one" THEN {1} ELSE Sessions

\* A slot no accept has filled yet.
NoSession ==
  [ st |-> "free", stage |-> 0, s_rio |-> FALSE, s_wio |-> FALSE,
    sbuf |-> <<>>, sbuf_idx |-> 0, sbuf_len |-> 0, s_remote |-> FALSE,
    e_pos |-> 0, d_pos |-> 0,
    r_st |-> "none", r_server |-> FALSE, r_rio |-> FALSE, r_wio |-> FALSE,
    r_ctimer |-> FALSE, r_itimer |-> FALSE, connected |-> FALSE, direct |-> FALSE,
    rbuf |-> <<>>, rbuf_idx |-> 0, rbuf_len |-> 0,
    s_closes |-> 0, r_closes |-> 0, n_removed |-> 0,
    obs |-> <<>>, u_out |-> <<>>, c_out |-> <<>>, n_in |-> 0, n_up |-> 0,
    req |-> <<>>, ev |-> "none", target |-> "none", acl_match |-> FALSE ]

\* What the history fields record:
\*   obs    the handshake send() calls on the inbound socket, each with the
\*          buffer passed to it, and the first connect/sendto on the upstream
\*          socket, the first upstream byte accepted and the first arming of
\*          the upstream read watcher, in the order they happened
\*   u_out  the bytes the upstream socket accepted
\*   c_out  the relay bytes the inbound socket accepted
\*   n_in   the payload bytes read from the client, n_up those read upstream
\*   req    the request stage 1 parsed
\*   target     where connect_to_remote resolved the upstream of the remote:
\*              the destination of the request ("dest") or a relay ("relay")
\*   acl_match  the access list is on and holds the destination of the request
\*   ev     how the last callback of the session ended: a handshake step, the
\*          first send, the connect, the cause of a teardown, or "io" for
\*          the ordinary moves of the relay (bytes moved, EAGAIN)
ObsSend(obs, bytes) == Append(obs, [k |-> "send", b |-> bytes])
ObsOnce(obs, kind) == IF \E i \in 1..Len(obs) : obs[i].k = kind THEN obs ELSE Append(obs, [k |-> kind, b |-> <<>>])

\* new_server, and accept_cb's start of the read watcher
new_server == [NoSession EXCEPT !.st = "live"]

\* new_remote: memset to 0, both connected flags 0, watchers and timers initialised, not started
new_remote(x) ==
  [ x EXCEPT !.r_st = "live", !.r_server = FALSE, !.r_rio = FALSE, !.r_wio = FALSE,
             !.r_ctimer = FALSE, !.r_itimer = FALSE, !.connected = FALSE,
             !.direct = FALSE, !.rbuf = <<>>, !.rbuf_idx = 0, !.rbuf_len = 0,
             !.target = "none" ]

\* free_remote: detach the server's pointer, then free
\* (the fields of a freed endpoint hold nothing: they are reset)
free_remote(x) ==
  [x EXCEPT !.s_remote = IF x.r_server THEN FALSE ELSE @, !.r_st = "dead",
            !.r_server = FALSE, !.connected = FALSE, !.direct = FALSE,
            !.rbuf = <<>>, !.rbuf_idx = 0, !.rbuf_len = 0, !.target = "none"]

\* close_and_free_remote(remote), rp: remote != NULL
close_and_free_remote(x, rp) ==
  IF rp
  THEN free_remote([x EXCEPT !.r_ctimer = FALSE, !.r_itimer = FALSE, !.r_wio = FALSE,
                             !.r_rio = FALSE, !.r_closes = @ + 1])
  ELSE x

\* free_server: leave the registry, detach the remote's pointer, then free
free_server(x) ==
  [x EXCEPT !.n_removed = @ + 1, !.r_server = IF x.s_remote THEN FALSE ELSE @, !.st = "dead",
            !.s_remote = FALSE, !.e_pos = 0, !.d_pos = 0,
            !.sbuf = <<>>, !.sbuf_idx = 0, !.sbuf_len = 0]

\* close_and_free_server that leaves the endpoint as it is.
close_and_free_server_m(x, sp) == x
\* close_and_free_server(server), sp: server != NULL
close_and_free_server(x, sp) ==
  IF sp
  THEN free_server([x EXCEPT !.s_wio = FALSE, !.s_rio = FALSE, !.s_closes = @ + 1])
  ELSE x

\* The fatal path of a callback, were it to close the remote alone.
Teardown_m(x, rp, sp, why) == [close_and_free_remote(x, rp) EXCEPT !.ev = why]

\* The pair of calls every fatal path of a callback makes:
\* close_and_free_remote(remote); close_and_free_server(server);
Teardown(x, rp, sp, why) == [close_and_free_server(close_and_free_remote(x, rp), sp) EXCEPT !.ev = why]

\* ------------------------------------------------------- results of a send
\* What send() may return for len bytes: all of them, some, EAGAIN, an error.
SendOutcomes(len) ==
  {[k |-> "full", n |-> len], [k |-> "eagain", n |-> 0], [k |-> "err", n |-> 0]}
    \cup {[k |-> "short", n |-> n] : n \in 1..Min(len - 1, MaxShort)}

\* What sendto(MSG_FASTOPEN) may return: as send, or EINPROGRESS, or ENOTCONN.
TfoOutcomes(len) ==
  {[k |-> "full", n |-> len], [k |-> "einprogress", n |-> 0],
   [k |-> "enotconn", n |-> 0], [k |-> "err", n |-> 0]}
    \cup {[k |-> "short", n |-> n] : n \in 1..Min(len - 1, MaxShort)}

NoSend == [k |-> "none", n |-> 0]

\* The bytes of buf a send of n bytes from offset idx hands to the socket.
Sent(buf, idx, n) == SubSeq(buf, idx + 1, idx + n)

\* The offset and length remote_send_cb / server_send_cb keep after a short send.
ShortIdx_m(idx, s) == idx
ShortIdx(idx, s) == idx + s
ShortLen(len, s) == len - s

\* -------------------------------------------------- server_recv_cb, stage 5
\* The sends the stage 5 branch may make for r bytes, by the path it takes.
RelayOutcomes(x, r, fo) ==
  IF ~x.s_remote THEN {NoSend}
  ELSE IF x.connected THEN SendOutcomes(r)
  ELSE IF ~fo \/ x.direct THEN {NoSend}
  ELSE TfoOutcomes(r)

\* The first send under TCP fast open (lines 265-296), p.rbuf_idx = 0, p.rbuf_len = r.
RelayFastOpen(p, r, o) ==
  LET c == [p EXCEPT !.obs = ObsOnce(@, "connect")] IN
  CASE o.k = "einprogress" ->
         [c EXCEPT !.rbuf_idx = 0, !.rbuf_len = r, !.s_rio = FALSE, !.r_wio = TRUE,
                   !.ev = "tfo_einprogress"]
    [] o.k = "enotconn" -> Teardown(c, TRUE, TRUE, "tfo_enotconn")
    [] o.k = "err" -> Teardown(c, TRUE, TRUE, "tfo_error")
    [] o.k = "short" ->
         [c EXCEPT !.rbuf_len = r - o.n, !.rbuf_idx = o.n,
                   !.u_out = @ \o Sent(c.rbuf, 0, o.n), !.obs = ObsOnce(ObsOnce(@, "usend"), "rrio"),
                   !.connected = TRUE, !.r_ctimer = FALSE, !.r_rio = TRUE,
                   !.ev = "tfo_short"]
    [] OTHER ->
         [c EXCEPT !.u_out = @ \o Sent(c.rbuf, 0, r), !.obs = ObsOnce(ObsOnce(@, "usend"), "rrio"),
                   !.connected = TRUE, !.r_ctimer = FALSE, !.r_rio = TRUE,
                   !.ev = "tfo_full"]

\* The send on a connected upstream, were EAGAIN to leave the inbound reader
\* armed.
RelaySend_m(e, r, o) ==
  CASE o.k = "eagain" ->
         [e EXCEPT !.rbuf_idx = 0, !.rbuf_len = r, !.r_wio = TRUE, !.ev = "io"]
    [] o.k = "err" -> Teardown(e, TRUE, TRUE, "relay_send_error")
    [] o.k = "short" ->
         [e EXCEPT !.rbuf_len = r - o.n, !.rbuf_idx = o.n, !.s_rio = FALSE, !.r_wio = TRUE,
                   !.u_out = @ \o Sent(e.rbuf, 0, o.n), !.obs = ObsOnce(@, "usend"),
                   !.ev = "io"]
    [] OTHER ->
         [e EXCEPT !.u_out = @ \o Sent(e.rbuf, 0, r), !.obs = ObsOnce(@, "usend"),
                   !.ev = "io"]

\* The send on a connected upstream (lines 304-325).
RelaySend(e, r, o) ==
  CASE o.k = "eagain" ->
         [e EXCEPT !.rbuf_idx = 0, !.rbuf_len = r, !.s_rio = FALSE, !.r_wio = TRUE,
                   !.ev = "io"]
    [] o.k = "err" -> Teardown(e, TRUE, TRUE, "relay_send_error")
    [] o.k = "short" ->
         [e EXCEPT !.rbuf_len = r - o.n, !.rbuf_idx = o.n, !.s_rio = FALSE, !.r_wio = TRUE,
                   !.u_out = @ \o Sent(e.rbuf, 0, o.n), !.obs = ObsOnce(@, "usend"),
                   !.ev = "io"]
    [] OTHER ->
         [e EXCEPT !.u_out = @ \o Sent(e.rbuf, 0, r), !.obs = ObsOnce(@, "usend"),
                   !.ev = "io"]

\* Lines 256-262: the ordinary connect; p.rbuf_idx = 0, p.rbuf_len = r.
ConnectStart_m(p) ==
  [p EXCEPT !.obs = ObsOnce(ObsOnce(@, "connect"), "rrio"), !.s_rio = FALSE, !.r_wio = TRUE,
            !.r_rio = TRUE, !.r_ctimer = TRUE, !.ev = "connect_started"]
ConnectStart(p) ==
  [p EXCEPT !.obs = ObsOnce(@, "connect"), !.s_rio = FALSE, !.r_wio = TRUE,
            !.r_ctimer = TRUE, !.ev = "connect_started"]

\* The stage 5 branch of server_recv_cb (lines 230-329): the r bytes to
\* forward are the first r bytes of remote->buf.
Relay(x, r, fo, enc_ok, o) ==
  IF ~x.s_remote THEN [close_and_free_server(x, TRUE) EXCEPT !.ev = "invalid_remote"]
  ELSE IF ~x.direct /\ ~enc_ok THEN Teardown(x, TRUE, TRUE, "encrypt_null")
  ELSE
    LET e == IF x.direct THEN x
             ELSE [x EXCEPT !.rbuf = ss_encrypt(@, r, x.e_pos), !.e_pos = @ + r] IN
    IF ~e.connected
    THEN LET p == [e EXCEPT !.rbuf_idx = 0, !.rbuf_len = r] IN
         IF ~fo \/ p.direct
         THEN ConnectStart(p)
         ELSE RelayFastOpen(p, r, o)
    ELSE RelaySend(e, r, o)

\* The ways the stage 5 branch may end for r bytes: the cipher gives output
\* or none, the send returns what it may.
RelayResults(x, r, fo) ==
  { Relay(x, r, fo, enc_ok, o) : enc_ok \in BOOLEAN, o \in RelayOutcomes(x, r, fo) }

\* Lines 199-208: recv of r payload bytes into remote->buf, or into
\* server->buf when there is no remote.
RecvPayload(x, r) ==
  IF x.s_remote
  THEN [x EXCEPT !.rbuf = Overwrite(@, ClientBytes(x.n_in, r)), !.n_in = @ + r]
  ELSE [x EXCEPT !.sbuf = Overwrite(@, ClientBytes(x.n_in, r)), !.n_in = @ + r]

\* ---------------------------------------------- server_recv_cb, stages 0, 1
\* Stage 0, were it to go to the relay stage at once.
Stage0_m(x) ==
  [x EXCEPT !.obs = ObsSend(@, MethodSelectResponse), !.stage = 5, !.ev = "greeting"]

\* Stage 0 (lines 330-337): the method selection response, whatever was read.
Stage0(x) ==
  [x EXCEPT !.obs = ObsSend(@, MethodSelectResponse), !.stage = 1, !.ev = "greeting"]

\* Line 346: the request is a UDP associate the server accepts.
UdpAssoc_m(udp, cmd) == cmd = 3
UdpAssoc(udp, cmd) == udp /\ cmd = 3

\* Lines 341-350: sock_addr, zeroed, and filled by getsockname for a UDP
\* associate: <<sin_addr, sin_port>>.
SockAddr_m(udp_assc) == <<ZeroAddr, ZeroPort>>
SockAddr(udp_assc) == IF udp_assc THEN <<BoundAddr, BoundPort>> ELSE <<ZeroAddr, ZeroPort>>

\* Lines 466-495: the reply of stage 1 and what follows its send; ro is the
\* result of the send, udp_assc the local flag.
Reply(x, ro, udp_assc) ==
  LET reply == FakeReply(SockAddr(udp_assc)[1], SockAddr(udp_assc)[2])
      w == [x EXCEPT !.sbuf = Overwrite(@, reply), !.obs = ObsSend(@, reply)] IN
  IF ro.k = "eagain" THEN Teardown(w, w.s_remote, TRUE, "reply_eagain")
  ELSE IF ro.k # "full" THEN Teardown(w, w.s_remote, TRUE, "reply_short")
  ELSE IF udp_assc THEN Teardown(w, w.s_remote, TRUE, "udp_assoc")
  ELSE [w EXCEPT !.ev = "paired"]

\* Lines 432-442: whether the session bypasses the relay.
IsDirect(aclv, atyp, hit) == (aclv /\ atyp = 1 /\ hit) \/ (aclv /\ atyp = 3 /\ hit)

\* r after lines 425 and 450-460, r the bytes the recv returned: the length
\* the stage 5 branch is entered with.
PairedLen(buf, r, direct) ==
  LET rest == r - (3 + AddrLen(buf)) IN IF direct THEN rest ELSE rest + AddrLen(buf)

\* Lines 450-460: what is copied to remote->buf.
PairedBuf(buf, r, direct) ==
  LET trailing == SubSeq(buf, 3 + AddrLen(buf) + 1, r) IN
  IF direct THEN trailing ELSE AddrHeader(buf) \o trailing

\* The payload bytes of the client that the read of the request held.
Trailing(buf, r) == IF r > 3 + AddrLen(buf) THEN r - (3 + AddrLen(buf)) ELSE 0

\* Lines 423-464: stage 5, the remote endpoint, its buffer, the two links.
Pair_m(x, buf, r, direct) ==
  [ new_remote([x EXCEPT !.stage = 5])
      EXCEPT !.direct = direct, !.rbuf = PairedBuf(buf, r, direct),
             !.n_in = Trailing(buf, r),
             !.target = IF direct THEN "dest" ELSE "relay",
             !.s_remote = TRUE, !.r_server = TRUE, !.obs = ObsOnce(@, "connect") ]
Pair(x, buf, r, direct) ==
  [ new_remote([x EXCEPT !.stage = 5])
      EXCEPT !.direct = direct, !.rbuf = PairedBuf(buf, r, direct),
             !.n_in = Trailing(buf, r),
             !.target = IF direct THEN "dest" ELSE "relay",
             !.s_remote = TRUE, !.r_server = TRUE ]

\* Stage 1 (lines 338-496) on buf, the memory of server->buf, whose first
\* r bytes the recv has just written.
\* hit: the access list's answer; conn_ok: connect_to_remote returned an
\* endpoint; ro: the result of the reply's send.
Stage1(x, buf, r, udp, aclv, hit, conn_ok, ro) ==
  IF UdpAssoc(udp, buf[2]) THEN Reply(x, ro, TRUE)
  ELSE IF buf[2] # 1
  THEN Teardown([x EXCEPT !.obs = ObsSend(@, CmdErrorResponse)], x.s_remote, TRUE, "cmd_rejected")
  ELSE IF buf[4] \notin {1, 3, 4} THEN Teardown(x, x.s_remote, TRUE, "atyp_rejected")
  ELSE
    LET y == [x EXCEPT !.acl_match = aclv /\ hit] IN
    IF IsDirect(aclv, buf[4], hit)
    THEN IF conn_ok THEN Reply(Pair(y, buf, r, TRUE), ro, FALSE)
         ELSE [y EXCEPT !.stage = 5, !.ev = "null_deref"]
    ELSE IF conn_ok THEN Reply(Pair(y, buf, r, FALSE), ro, FALSE)
         ELSE [close_and_free_server([y EXCEPT !.stage = 5], TRUE) EXCEPT !.ev = "remote_null"]

\* The ways server_recv_cb may end in stage 1 on the request buf: stage 1 by
\* the answers of its collaborators, then, the session paired, the stage 5
\* branch in the same run of the loop, on the bytes placed in remote->buf.
RequestResults(x, buf, udp, aclv, fo) ==
  UNION { LET r == Len(buf)
              mem == BufView(Overwrite(x.sbuf, buf), fill)
              parsed == IF r > 3 + AddrLen(mem) THEN r ELSE 3 + AddrLen(mem)
              mid == Stage1([x EXCEPT !.sbuf = Overwrite(@, buf), !.req = SubSeq(mem, 1, parsed)],
                            mem, r, udp, aclv, hit, conn_ok, ro)
          IN IF mid.ev = "paired"
             THEN RelayResults(mid, PairedLen(mem, r, mid.direct), fo)
             ELSE {mid}
          : hit \in BOOLEAN, conn_ok \in BOOLEAN, ro \in SendOutcomes(10), fill \in Uninit }

\* The history of a session whose endpoints are both gone: the streams are
\* dropped, the request is cut to {ver, cmd, rsv, atyp}; obs and ev stay.
Forget(x) ==
  IF x.st = "dead" /\ x.r_st # "live"
  THEN [x EXCEPT !.u_out = <<>>, !.c_out = <<>>, !.n_in = 0, !.n_up = 0,
                 !.req = SubSeq(@, 1, Min(4, Len(@))), !.acl_match = FALSE]
  ELSE x

\* cork_dllist_remove
Remove_m(list, s) == IF list = <<>> THEN list ELSE Tail(list)
Remove(list, s) == SelectSeq(list, LAMBDA e : e # s)

\* Lines 278-283: the ENOTCONN branch of the first sendto clears fast_open;
\* nothing else writes it after startup.
FastOpenAfter_m(fo, ev) == fo
\* The same, were any failure of the sendto to clear the flag.
FastOpenAfter_e(fo, ev) == IF ev \in {"tfo_enotconn", "tfo_error"} THEN FALSE ELSE fo
FastOpenAfter(fo, ev) == IF ev = "tfo_enotconn" THEN FALSE ELSE fo

\* The end of a callback of session s that leaves it as new: the registry
\* loses s when free_server ran, fast_open is cleared by the ENOTCONN branch
\* (lines 278-283), the process dies on the null dereference of line 436.
Commit(s, new) ==
  /\ S' = [S EXCEPT ![s] = Forget(new)]
  /\ connections' = IF new.n_removed > S[s].n_removed THEN Remove(connections, s) ELSE connections
  /\ fast_open' = FastOpenAfter(fast_open, new.ev)
  /\ crashed' = (new.ev = "null_deref")
  /\ UNCHANGED <<acl, udprelay, env, running, curr, hdr>>

\* ------------------------------------------------------------------ actions
InitProgram ==
  /\ S = [s \in Sessions |-> NoSession]
  /\ connections = <<>>
  /\ fast_open \in BOOLEAN
  /\ acl \in BOOLEAN
  /\ udprelay \in BOOLEAN
  /\ crashed = FALSE
  /\ running = TRUE
  /\ curr = [k |-> "none", s |-> 0]

Init == InitProgram /\ env = "one" /\ hdr = NoHeader
InitMany == InitProgram /\ env = "many" /\ hdr = NoHeader
\* No client asks for a UDP associate when the shutdown is followed: the
\* UDP relay is left off.
InitSweep == InitProgram /\ env = "sweep" /\ ~udprelay /\ hdr = NoHeader

\* accept_cb: a new server endpoint at the tail of the registry, reading.
accept_cb(s) ==
  /\ ~crashed /\ running
  /\ s \in EnvSessions
  /\ S[s].st = "free"
  /\ \A t \in Sessions : t < s => S[t].st # "free"
  /\ S' = [S EXCEPT ![s] = [new_server EXCEPT !.s_rio = TRUE, !.ev = "accepted"]]
  /\ connections' = Append(connections, s)
  /\ UNCHANGED <<fast_open, acl, udprelay, crashed, env, running, curr, hdr>>

\* server_recv_cb: the inbound socket is readable.
server_recv_cb(s) ==
  /\ ~crashed /\ running
  /\ S[s].st = "live"
  /\ S[s].s_rio
  /\ LET x == S[s] IN
     \/ Commit(s, Teardown(x, x.s_remote, TRUE, "server_eof"))
     \/ Commit(s, [x EXCEPT !.ev = "io"])
     \/ Commit(s, Teardown(x, x.s_remote, TRUE, "server_recv_error"))
     \/ /\ x.stage = 0
        /\ \E g \in Greetings : Commit(s, Stage0([x EXCEPT !.sbuf = Overwrite(@, g)]))
     \/ /\ x.stage = 1
        /\ \E buf \in EnvRequests : \E new \in RequestResults(x, buf, udprelay, acl, fast_open) :
             Commit(s, new)
     \/ /\ x.stage = 5
        /\ \E r \in 1..Min(MaxRead, EnvPayload - x.n_in) :
             \E new \in RelayResults(RecvPayload(x, r), r, fast_open) : Commit(s, new)

\* Lines 644-673: remote_send_cb once the upstream is connected.
RemoteFlush(x, o) ==
  IF x.rbuf_len = 0 THEN Teardown(x, TRUE, x.r_server, "remote_send_empty")
  ELSE CASE o.k = "eagain" -> [x EXCEPT !.ev = "io"]
         [] o.k = "err" -> Teardown(x, TRUE, x.r_server, "remote_send_error")
         [] o.k = "short" ->
              [x EXCEPT !.rbuf_len = ShortLen(@, o.n), !.rbuf_idx = ShortIdx(@, o.n),
                        !.u_out = @ \o Sent(x.rbuf, x.rbuf_idx, o.n),
                        !.obs = ObsOnce(@, "usend"), !.ev = "io"]
         [] OTHER ->
              [x EXCEPT !.rbuf_len = 0, !.rbuf_idx = 0, !.r_wio = FALSE, !.s_rio = TRUE,
                        !.u_out = @ \o (IF x.rbuf_len < 0 THEN OverRead
                                        ELSE Sent(x.rbuf, x.rbuf_idx, x.rbuf_len)),
                        !.obs = ObsOnce(@, "usend"), !.ev = "io"]

\* The completion of the connect, were it to set the direct flag.
RemoteConnected_m(x) ==
  [x EXCEPT !.connected = TRUE, !.r_ctimer = FALSE, !.r_itimer = TRUE, !.r_rio = TRUE,
            !.obs = ObsOnce(@, "rrio"), !.direct = TRUE]

\* The completion of the connect, were the connect timer left running.
RemoteConnected_t(x) ==
  [x EXCEPT !.connected = TRUE, !.r_itimer = TRUE, !.r_rio = TRUE,
            !.obs = ObsOnce(@, "rrio")]

\* Lines 619-642: the connect has completed (getpeername succeeded).
RemoteConnected(x) ==
  [x EXCEPT !.connected = TRUE, !.r_ctimer = FALSE, !.r_itimer = TRUE, !.r_rio = TRUE,
            !.obs = ObsOnce(@, "rrio")]

\* remote_send_cb: the upstream socket is writable.
remote_send_cb(s) ==
  /\ ~crashed /\ running
  /\ S[s].r_st = "live"
  /\ S[s].r_wio
  /\ LET x == S[s] IN
     \/ /\ ~x.connected
        /\ Commit(s, Teardown(x, TRUE, x.r_server, "getpeername_failed"))
     \/ /\ ~x.connected
        /\ LET c == RemoteConnected(x) IN
           IF c.rbuf_len = 0
           THEN Commit(s, [c EXCEPT !.r_wio = FALSE, !.s_rio = TRUE, !.ev = "connected_idle"])
           ELSE \E o \in SendOutcomes(c.rbuf_len) : Commit(s, RemoteFlush(c, o))
     \/ /\ x.connected
        /\ \E o \in SendOutcomes(x.rbuf_len) : Commit(s, RemoteFlush(x, o))

\* Lines 588-610: the send of r received bytes to the client.
RemoteRecvSend(x, r, o) ==
  CASE o.k = "eagain" ->
         [x EXCEPT !.sbuf_len = r, !.sbuf_idx = 0, !.r_rio = FALSE, !.s_wio = TRUE,
                   !.ev = "io"]
    [] o.k = "err" -> Teardown(x, TRUE, x.r_server, "remote_recv_send_error")
    [] o.k = "short" ->
         [x EXCEPT !.sbuf_len = r - o.n, !.sbuf_idx = o.n, !.r_rio = FALSE, !.s_wio = TRUE,
                   !.c_out = @ \o Sent(x.sbuf, 0, o.n), !.ev = "io"]
    [] OTHER -> [x EXCEPT !.c_out = @ \o Sent(x.sbuf, 0, r), !.ev = "io"]

\* Lines 578-586: ss_decrypt in place unless direct.
RemoteRecvDecrypt(x, r) ==
  IF x.direct THEN x ELSE [x EXCEPT !.sbuf = ss_decrypt(@, r, x.d_pos), !.d_pos = @ + r]

\* remote_recv_cb: the upstream socket is readable.
remote_recv_cb(s) ==
  /\ ~crashed /\ running
  /\ S[s].r_st = "live"
  /\ S[s].r_rio
  /\ LET x == [S[s] EXCEPT !.r_itimer = TRUE] IN
     \/ Commit(s, Teardown(x, TRUE, x.r_server, "remote_eof"))
     \/ Commit(s, [x EXCEPT !.ev = "io"])
     \/ Commit(s, Teardown(x, TRUE, x.r_server, "remote_recv_error"))
     \/ \E r \in 1..Min(MaxRead, EnvUp - x.n_up) :
          LET got == [x EXCEPT !.sbuf = Overwrite(@, UpBytes(x.n_up, r)), !.n_up = @ + r] IN
          \/ /\ ~got.direct
             /\ Commit(s, Teardown(got, TRUE, got.r_server, "decrypt_null"))
          \/ \E o \in SendOutcomes(r) : Commit(s, RemoteRecvSend(RemoteRecvDecrypt(got, r), r, o))

\* Lines 505-533 of server_send_cb.
ServerFlush(x, o) ==
  IF x.sbuf_len = 0 THEN Teardown(x, x.s_remote, TRUE, "server_send_empty")
  ELSE CASE o.k = "eagain" -> [x EXCEPT !.ev = "io"]
         [] o.k = "err" -> Teardown(x, x.s_remote, TRUE, "server_send_error")
         [] o.k = "short" ->
              [x EXCEPT !.sbuf_len = ShortLen(@, o.n), !.sbuf_idx = ShortIdx(@, o.n),
                        !.c_out = @ \o Sent(x.sbuf, x.sbuf_idx, o.n),
                        !.ev = "io"]
         [] OTHER ->
              [x EXCEPT !.sbuf_len = 0, !.sbuf_idx = 0, !.s_wio = FALSE, !.r_rio = TRUE,
                        !.c_out = @ \o Sent(x.sbuf, x.sbuf_idx, x.sbuf_len),
                        !.ev = "io"]

\* server_send_cb: the inbound socket is writable.
server_send_cb(s) ==
  /\ ~crashed /\ running
  /\ S[s].st = "live"
  /\ S[s].s_wio
  /\ \E o \in SendOutcomes(S[s].sbuf_len) : Commit(s, ServerFlush(S[s], o))

\* remote_timeout_cb without its close_and_free_server.
remote_timeout_cb_m(s) ==
  /\ ~crashed /\ running
  /\ S[s].r_st = "live"
  /\ S[s].r_ctimer \/ S[s].r_itimer
  /\ Commit(s, Teardown(S[s], TRUE, FALSE, "timeout"))

\* remote_timeout_cb: the connect timer or the idle timer fired.
remote_timeout_cb(s) ==
  /\ ~crashed /\ running
  /\ S[s].r_st = "live"
  /\ S[s].r_ctimer \/ S[s].r_itimer
  /\ Commit(s, Teardown(S[s], TRUE, S[s].r_server, "timeout"))

Next ==
  \E s \in Sessions :
    \/ accept_cb(s)
    \/ server_recv_cb(s)
    \/ server_send_cb(s)
    \/ remote_recv_cb(s)
    \/ remote_send_cb(s)
    \/ remote_timeout_cb(s)

Spec == Init /\ [][Next]_vars
SpecMany == InitMany /\ [][Next]_vars

\* ---------------------------------------------------------------- shutdown
\* The cursor at an item of the list, and past its last item.
AtItem(s) == [k |-> "at", s |-> s]
AtEnd == [k |-> "end", s |-> 0]
\* cork_dllist_start
ListStart(list) == IF list = <<>> THEN AtEnd ELSE AtItem(list[1])

\* signal_cb on SIGINT or SIGTERM: ev_unloop; ev_run returns to main, which
\* calls free_connections: the cursor is set to the start of the list.
signal_cb ==
  /\ ~crashed /\ running
  /\ running' = FALSE
  /\ curr' = ListStart(connections)
  /\ UNCHANGED <<S, connections, fast_open, acl, udprelay, crashed, env, hdr>>

\* The item that follows s in the list.
ListNext(list, s) ==
  LET i == CHOOSE j \in 1..Len(list) : list[j] = s IN
  IF i < Len(list) THEN AtItem(list[i + 1]) ELSE AtEnd
\* curr = curr->next, read from the item after its server was freed: the
\* pointer the item held, or whatever the freed memory holds by then.
NextAfterFree(list, s) == {ListNext(list, s), [k |-> "wild", s |-> 0]}

\* The body of the loop of free_connections on the server at the cursor:
\* close_and_free_server(server), then close_and_free_remote of the remote
\* read before.
SweepOne(x) ==
  [close_and_free_remote(close_and_free_server(x, TRUE), x.s_remote) EXCEPT !.ev = "swept"]

\* free_connections, called by main once ev_run has returned: one iteration
\* of its loop.
free_connections ==
  /\ ~crashed /\ ~running
  /\ curr.k = "at"
  /\ S' = [S EXCEPT ![curr.s] = Forget(SweepOne(@))]
  /\ connections' = Remove(connections, curr.s)
  /\ curr' \in NextAfterFree(connections, curr.s)
  /\ UNCHANGED <<fast_open, acl, udprelay, crashed, env, running, hdr>>

NextSweep == Next \/ signal_cb \/ free_connections

SpecSweep == InitSweep /\ [][NextSweep]_vars

\* ------------------------------------- stage 1 on a domain name, by index
\* The indices a memcpy of n bytes to offset off writes.
Written(off, n) == off..(off + n - 1)

\* A CONNECT to a domain name read at once: the byte at buf[4], the bytes r
\* the recv returned (the request, the request and some payload, or a full
\* buffer), the verbose flag and whether the access list holds the name.
HeaderInputs ==
  { [NoHeader EXCEPT !.pc = "read", !.len_byte = b, !.r = r, !.verbose = v, !.hit = h]
    : b \in 0..255, v \in BOOLEAN, h \in BOOLEAN, r \in {BUF_SIZE} }
  \cup
  { [NoHeader EXCEPT !.pc = "read", !.len_byte = b, !.r = 4 + 1 + b + 2 + e, !.verbose = v, !.hit = h]
    : b \in 0..255, v \in BOOLEAN, h \in BOOLEAN, e \in 0..MaxExtra }

InitHeader ==
  /\ InitProgram /\ ~fast_open /\ ~udprelay
  /\ env = "header"
  /\ hdr \in HeaderInputs

\* Lines 369 and 389-393: what is written to ss_addr_to_send.
AddrWrites(name_len) == {0} \cup {1} \cup Written(2, name_len + 2)
\* Lines 398-399, were the terminator put one byte further.
HostWrites_m(name_len) == Written(0, name_len) \cup {name_len + 1}
\* Lines 398-399: what is written to host.
HostWrites(name_len) == Written(0, name_len) \cup {name_len}

\* Lines 367-401 for atyp 3: the address header and the host text.
build_header ==
  /\ hdr.pc = "read"
  /\ LET name_len == hdr.len_byte % 256 IN
     hdr' = [hdr EXCEPT !.pc = "built", !.name_len = name_len,
                        !.addr_len = 1 + 1 + name_len + 2,
                        !.w_addr = AddrWrites(name_len),
                        !.w_host = IF acl \/ hdr.verbose THEN HostWrites(name_len) ELSE {}]
  /\ UNCHANGED <<S, connections, fast_open, acl, udprelay, crashed, env, running, curr>>

\* Lines 450-460: what is written to remote->buf, r the bytes behind the
\* request.
BufWrites(addr_len, r, direct) ==
  IF direct THEN (IF r > 0 THEN Written(0, r) ELSE {})
  ELSE Written(0, addr_len) \cup (IF r > 0 THEN Written(addr_len, r) ELSE {})

\* Lines 423-460 with a remote created: r is cut by the request, the branch
\* is chosen, the outbound buffer of the remote is filled.
fill_remote ==
  /\ hdr.pc = "built"
  /\ LET r == hdr.r - (3 + hdr.addr_len)
         direct == IsDirect(acl, 3, hdr.hit) IN
     hdr' = [hdr EXCEPT !.pc = "filled", !.direct = direct,
                        !.w_buf = BufWrites(hdr.addr_len, r, direct),
                        !.r = IF direct THEN r ELSE r + hdr.addr_len]
  /\ UNCHANGED <<S, connections, fast_open, acl, udprelay, crashed, env, running, curr>>

NextHeader == build_header \/ fill_remote

SpecHeader == InitHeader /\ [][NextHeader]_vars

\* ------------------------------------------------------------------ claims
\* The handshake send() calls of a session, in order.
Sends(x) == SelectSeq(x.obs, LAMBDA e : e.k = "send")
HasObs(x, kind) == \E i \in 1..Len(x.obs) : x.obs[i].k = kind
\* A session whose two endpoints live and are linked.
Paired(x) == x.st = "live" /\ x.r_st = "live" /\ x.stage = 5

\* What the upstream has to be handed for the bytes read from the client so
\* far: the payload, behind the address header and through the cipher unless
\* the session is direct.
ExpectedUp(x) ==
  IF x.direct THEN ClientBytes(0, x.n_in)
  ELSE EncStream(AddrHeader(x.req) \o ClientBytes(0, x.n_in))

\* What the client has to be handed for the bytes read from the upstream.
ExpectedDown(x) ==
  IF x.direct THEN UpBytes(0, x.n_up) ELSE DecStream(UpBytes(0, x.n_up))

\* C1: the bytes handed to the upstream socket are, in order and with no
\* loss, duplication or reordering, encrypt(address_header || S), or S when
\* direct: they are a prefix of that stream, with the residual of the buffer
\* they are all of it while the upstream write watcher waits, and they are all
\* of it when it does not.
C1_InboundToUpstream ==
  \A s \in Sessions :
    LET x == S[s] IN
    Paired(x) =>
      /\ IsPrefix(x.u_out, ExpectedUp(x))
      /\ IF x.r_wio
         THEN x.u_out \o Sent(x.rbuf, x.rbuf_idx, x.rbuf_len) = ExpectedUp(x)
         ELSE x.u_out = ExpectedUp(x)

\* C2: the bytes handed to the client socket are, in order and with no loss,
\* duplication or reordering, R when direct and decrypt(R) otherwise: with
\* the residual of the server's buffer they are all of it while the inbound
\* write watcher waits, and they are all of it when it does not.
C2_UpstreamToInbound ==
  \A s \in Sessions :
    LET x == S[s] IN
    Paired(x) =>
      /\ IsPrefix(x.c_out, ExpectedDown(x))
      /\ IF x.s_wio
         THEN x.c_out \o Sent(x.sbuf, x.sbuf_idx, x.sbuf_len) = ExpectedDown(x)
         ELSE x.c_out = ExpectedDown(x)

\* A short send to the client of a relayed session, its residual waiting.
C2_Witness ==
  \E s \in Sessions :
    /\ Paired(S[s]) /\ ~S[s].direct /\ S[s].s_wio
    /\ S[s].sbuf_idx > 0 /\ S[s].sbuf_len > 0 /\ Len(S[s].c_out) > 0

\* C3: after a short first sendto under fast open the residual is kept at
\* offset n, the upstream write watcher is armed and the inbound read watcher
\* is not, so that the residual leaves before any further byte is read.
C3_TfoPartialSend ==
  \A s \in Sessions :
    LET x == S[s] IN
    x.ev = "tfo_short" =>
      /\ x.rbuf_idx = Len(x.u_out) /\ x.rbuf_len > 0
      /\ x.u_out \o Sent(x.rbuf, x.rbuf_idx, x.rbuf_len) = ExpectedUp(x)
      /\ x.r_wio
      /\ ~x.s_rio

\* C4 as stated: for each socket of each session, the read watcher and the
\* write watcher of that socket are never both armed.
C4_NeverBothArmed ==
  \A s \in Sessions :
    /\ ~(S[s].s_rio /\ S[s].s_wio)
    /\ ~(S[s].r_rio /\ S[s].r_wio)

\* C4, amended: the two watchers of one socket are armed together only while
\* the session relays on an upstream marked connected; until then no socket
\* has both its watchers armed.
C4_BothArmedOnlyRelaying ==
  \A s \in Sessions :
    LET x == S[s] IN
    /\ x.s_rio /\ x.s_wio => x.stage = 5 /\ x.r_st = "live" /\ x.connected
    /\ x.r_rio /\ x.r_wio => x.stage = 5 /\ x.connected

\* A relaying session whose inbound socket has its two watchers armed: the
\* client is read for the upstream while a residual waits to be written to it.
C4_Witness ==
  \E s \in Sessions :
    /\ S[s].s_rio /\ S[s].s_wio
    /\ S[s].stage = 5 /\ S[s].connected /\ S[s].sbuf_len > 0

\* The number of entries of the registry that are session s.
InRegistry(s) == Len(SelectSeq(connections, LAMBDA e : e = s))

\* C5: the registry holds each live server endpoint exactly once and no
\* destroyed one, and a session has left it exactly once when it is torn
\* down, never before and never again.
C5_Registry ==
  \A s \in Sessions :
    /\ InRegistry(s) = IF S[s].st = "live" THEN 1 ELSE 0
    /\ S[s].n_removed = IF S[s].st = "dead" THEN 1 ELSE 0
    /\ S[s].s_closes = S[s].n_removed

\* The earlier session is torn down, the later one lives, alone in the registry.
C5_Witness ==
  \E s, t \in Sessions :
    /\ s < t /\ S[s].st = "dead" /\ S[s].n_removed = 1
    /\ S[t].st = "live" /\ connections = <<t>>

\* C6: nothing is written to the client while the session is in stage 0; the
\* first write is exactly 05 00, made on the first inbound data whatever it
\* holds, and it leaves the session live in stage 1.
C6_MethodSelection ==
  \A s \in Sessions :
    LET x == S[s] IN
    /\ x.stage = 0 => Sends(x) = <<>> /\ x.c_out = <<>>
    /\ x.st # "free" /\ x.stage # 0 => Sends(x) # <<>>
    /\ Sends(x) # <<>> => Sends(x)[1].b = <<5, 0>> /\ x.obs[1].k = "send"
    /\ x.ev = "greeting" => x.st = "live" /\ x.stage = 1 /\ Len(x.obs) = 1

\* The first inbound data was not a SOCKS5 greeting, and 05 00 answered it.
C6_Witness ==
  \E s \in Sessions :
    /\ S[s].ev = "greeting" /\ SubSeq(S[s].sbuf, 1, 2) = <<4, 1>>
    /\ S[s].stage = 1 /\ Sends(S[s])[1].b = <<5, 0>>

\* C7: in a session that paired, the second record written to the client is
\* exactly 05 00 00 01 00 00 00 00 00 00, nothing is written to the client by
\* the handshake after it, and it precedes the upstream connect, the first
\* byte sent to the upstream and the arming of the upstream read watcher.
C7_FakeReplyFirst ==
  \A s \in Sessions :
    LET x == S[s] IN
    (Paired(x) \/ HasObs(x, "connect") \/ HasObs(x, "usend") \/ HasObs(x, "rrio")) =>
      /\ Len(x.obs) >= 2
      /\ x.obs[1] = [k |-> "send", b |-> <<5, 0>>]
      /\ x.obs[2] = [k |-> "send", b |-> <<5, 0, 0, 1, 0, 0, 0, 0, 0, 0>>]
      /\ \A i \in 3..Len(x.obs) : x.obs[i].k # "send"

\* A paired session that connected, sent upstream and armed the upstream reader.
C7_Witness ==
  \E s \in Sessions :
    /\ Paired(S[s])
    /\ HasObs(S[s], "connect") /\ HasObs(S[s], "usend") /\ HasObs(S[s], "rrio")
    /\ Len(S[s].u_out) > 0

\* The command of the request is not one the server accepts.
Unsupported(cmd) == cmd # 1 /\ ~(udprelay /\ cmd = 3)

\* C8: a request of stage 1 whose cmd is neither 1 nor, with UDP relay on, 3
\* makes the server write exactly 05 07 00 01 and tear the session down: no
\* remote endpoint, no success reply, the server endpoint out of the registry,
\* the stage still 1; and no other request is answered so.
C8_CmdRejected ==
  \A s \in Sessions :
    LET x == S[s] IN
    /\ x.req # <<>> => (Unsupported(x.req[2]) <=> x.ev = "cmd_rejected")
    /\ x.ev = "cmd_rejected" =>
         /\ x.st = "dead" /\ x.r_st = "none" /\ x.stage = 1
         /\ x.s_closes = 1 /\ x.r_closes = 0
         /\ InRegistry(s) = 0
         /\ x.obs = <<[k |-> "send", b |-> <<5, 0>>], [k |-> "send", b |-> <<5, 7, 0, 1>>]>>

\* A BIND was rejected, or a UDP associate with UDP relay off.
C8_Witness ==
  \E s \in Sessions :
    /\ S[s].ev = "cmd_rejected"
    /\ S[s].req[2] = 3 /\ ~udprelay
    /\ Sends(S[s])[2].b = <<5, 7, 0, 1>>

\* C9: a CONNECT whose address type is not 1, 3 or 4 closes the session after
\* a SOCKS5 error reply was written to the client, and creates no remote.
C9_AtypRejected ==
  \A s \in Sessions :
    LET x == S[s] IN
    x.ev = "atyp_rejected" =>
      /\ x.st = "dead" /\ x.r_st = "none"
      /\ Len(Sends(x)) = 2
      /\ Sends(x)[2].b[1] = 5 /\ Sends(x)[2].b[2] # 0

\* C10: with UDP relay on, a request with cmd 3 makes the server write
\* 05 00 00 01 and the bound address and port of the inbound socket, then
\* tear the session down in the same callback: the stage is never 5, there
\* is no remote endpoint, the server endpoint is out of the registry.
C10_UdpAssociate ==
  \A s \in Sessions :
    LET x == S[s] IN
    /\ x.req # <<>> /\ udprelay /\ x.req[2] = 3 => x.ev \in {"udp_assoc", "reply_short", "reply_eagain"}
    /\ x.ev = "udp_assoc" =>
         /\ udprelay /\ x.req[2] = 3
         /\ x.st = "dead" /\ x.r_st = "none" /\ x.stage = 1
         /\ x.s_closes = 1 /\ x.r_closes = 0
         /\ InRegistry(s) = 0
         /\ x.obs = <<[k |-> "send", b |-> <<5, 0>>],
                      [k |-> "send", b |-> <<5, 0, 0, 1, 127, 0, 0, 1, 4, 56>>]>>

\* A UDP associate was answered with the bound address and the session closed.
C10_Witness ==
  \E s \in Sessions :
    /\ S[s].ev = "udp_assoc" /\ S[s].st = "dead"
    /\ SubSeq(Sends(S[s])[2].b, 5, 10) = BoundAddr \o BoundPort

\* The ends of a first send under fast open.
TfoEvents == {"tfo_einprogress", "tfo_enotconn", "tfo_error", "tfo_short", "tfo_full"}

\* C11: a first sendto under fast open that fails with ENOTCONN does not tear
\* the session down: both endpoints stay, the bytes stay pending in the
\* remote's buffer, the connect is on its way and the upstream write watcher
\* is armed.
C11_EnotconnFallsBack ==
  \A s \in Sessions :
    LET x == S[s] IN
    x.ev = "tfo_enotconn" =>
      /\ x.st = "live" /\ x.r_st = "live"
      /\ x.rbuf_len > 0 /\ x.r_wio /\ ~x.s_rio

\* Session t made its first upstream send by a fast open sendto in this step.
TfoStep(t) == S'[t] # S[t] /\ S'[t].ev \in TfoEvents

\* C12: once a fast open sendto has failed with ENOTCONN the flag fast_open
\* is off; once off it stays off, and no session makes its first upstream
\* send by a fast open sendto from then on; and a direct session never does.
C12_FastOpenStaysOff ==
  /\ []((\E s \in Sessions : S[s].ev = "tfo_enotconn") => ~fast_open)
  /\ [][~fast_open => ~fast_open' /\ \A t \in Sessions : ~TfoStep(t)]_vars
  /\ [](\A s \in Sessions : S[s].ev \in TfoEvents /\ S[s].r_st = "live" => ~S[s].direct)
  /\ [](\A s \in Sessions : S[s].ev = "connect_started" => ~fast_open \/ S[s].direct)

\* A session's sendto failed with ENOTCONN; a later one, not direct, took the
\* ordinary connect path.
C12_Witness ==
  \E s, t \in Sessions :
    /\ s < t /\ S[s].ev = "tfo_enotconn" /\ ~fast_open
    /\ S[t].ev = "connect_started" /\ ~S[t].direct /\ S[t].r_wio

\* Every watcher and timer of the session is stopped.
AllStopped(x) ==
  ~x.s_rio /\ ~x.s_wio /\ ~x.r_rio /\ ~x.r_wio /\ ~x.r_ctimer /\ ~x.r_itimer

\* C13: a fire of the connect timer or of the idle timer tears the session
\* down within the callback: both sockets closed, the four watchers and the
\* two timers stopped, the server endpoint out of the registry; and no
\* callback of the session runs afterwards.
C13_TimerTeardown ==
  /\ [](\A s \in Sessions :
          S[s].ev = "timeout" =>
            /\ S[s].st = "dead" /\ S[s].r_st = "dead"
            /\ S[s].s_closes = 1 /\ S[s].r_closes = 1
            /\ AllStopped(S[s])
            /\ InRegistry(s) = 0)
  /\ [][\A s \in Sessions : S[s].ev = "timeout" => S'[s] = S[s]]_vars

\* The timer fired on a session that was relaying: it is torn down.
C13_Witness ==
  \E s \in Sessions :
    /\ S[s].ev = "timeout" /\ S[s].stage = 5
    /\ S[s].s_closes = 1 /\ S[s].r_closes = 1 /\ S[s].n_removed = 1

\* C14: whenever a session is in stage 5 with a live remote endpoint, its
\* connect pending or done, one of the remote's two timers is running, on
\* the ordinary connect path and on every path of the fast open send.
C14_TimerAlwaysRunning ==
  \A s \in Sessions :
    Paired(S[s]) => S[s].r_ctimer \/ S[s].r_itimer

\* C15: the two endpoints of a session are destroyed together, at the return
\* of every callback and after each step of the shutdown sweep: a live remote
\* has a live server and each points to the other, a destroyed one has a
\* destroyed server, and no endpoint holds a pointer to a freed peer.
C15_DestroyedTogether ==
  \A s \in Sessions :
    LET x == S[s] IN
    /\ x.r_st = "live" => x.st = "live" /\ x.s_remote /\ x.r_server
    /\ x.r_st = "dead" => x.st = "dead"
    /\ x.s_remote => x.st = "live" /\ x.r_st = "live"
    /\ x.r_server => x.st = "live" /\ x.r_st = "live"
    /\ x.s_closes <= 1 /\ x.r_closes <= 1

\* The sweep destroyed the two endpoints of a session while another lives.
C15_Witness ==
  \E s, t \in Sessions :
    /\ S[s].ev = "swept" /\ S[s].s_closes = 1 /\ S[s].r_closes = 1
    /\ S[t].st = "live" /\ S[t].r_st = "live" /\ S[t].s_remote /\ S[t].r_server

\* C16: the direct flag of a remote endpoint has, from the first state in
\* which the endpoint is linked, the value it keeps in every later state of
\* the session; so the cipher has taken every byte read in either direction
\* of a session that is not direct, and none of a direct one.
C16_DirectSetOnce ==
  /\ [][\A s \in Sessions :
          S[s].r_st = "live" /\ S'[s].r_st = "live" => S'[s].direct = S[s].direct]_vars
  /\ [](\A s \in Sessions :
          Paired(S[s]) =>
            IF S[s].direct
            THEN S[s].e_pos = 0 /\ S[s].d_pos = 0
            ELSE /\ S[s].e_pos - S[s].n_in \in 1..Len(AddrHeader(S[s].req))
                 /\ S[s].d_pos = S[s].n_up)

\* A direct session that has moved bytes in both directions.
C16_Witness ==
  \E s \in Sessions :
    /\ Paired(S[s]) /\ S[s].direct /\ S[s].connected
    /\ Len(S[s].u_out) > 0 /\ Len(S[s].c_out) > 0

\* C17: for the buffer of each live endpoint, buf_idx and buf_len are not
\* negative, buf_idx + buf_len stays within the bytes the buffer holds and
\* within its capacity, and buf_idx is 0 whenever buf_len is 0.
C17_BufferIndices ==
  \A s \in Sessions :
    LET x == S[s] IN
    /\ x.st = "live" =>
         /\ x.sbuf_idx >= 0 /\ x.sbuf_len >= 0
         /\ x.sbuf_idx + x.sbuf_len <= Len(x.sbuf) /\ Len(x.sbuf) <= BUF_SIZE
         /\ x.sbuf_len = 0 => x.sbuf_idx = 0
    /\ x.r_st = "live" =>
         /\ x.rbuf_idx >= 0 /\ x.rbuf_len >= 0
         /\ x.rbuf_idx + x.rbuf_len <= Len(x.rbuf) /\ Len(x.rbuf) <= BUF_SIZE
         /\ x.rbuf_len = 0 => x.rbuf_idx = 0

\* C18: once the signal has broken the loop the sweep comes to its end with
\* every session torn down: when free_connections can take no further step
\* its cursor is at the end of the list, the registry is empty, no endpoint
\* is left live and every watcher and timer is stopped.
C18_SweepTearsAllDown ==
  ~running /\ curr.k # "at" =>
    /\ curr.k = "end"
    /\ connections = <<>>
    /\ \A s \in Sessions :
         S[s].st # "live" /\ S[s].r_st # "live" /\ AllStopped(S[s])

\* C19: a recv or a send of a session that ends with EAGAIN, the send of a
\* handshake reply included, does not tear the session down: the server
\* endpoint stays live and in the registry, its remote stays with it, and a
\* watcher of the session is armed for the retry.
C19_EagainRecoverable ==
  \A s \in Sessions :
    LET x == S[s] IN
    x.ev \in {"io", "reply_eagain"} =>
      /\ x.st = "live" /\ InRegistry(s) = 1
      /\ x.stage = 5 => x.r_st = "live"
      /\ x.s_rio \/ x.s_wio \/ x.r_rio \/ x.r_wio

\* C20: a CONNECT session is direct exactly when the access list is on and
\* holds the destination of the request; the upstream of a direct session is
\* that destination and its outbound buffer starts with the client's bytes,
\* the upstream of any other session is a relay and its outbound buffer
\* starts with the address header.
C20_DirectIffAclMatch ==
  \A s \in Sessions :
    LET x == S[s] IN
    x.st = "live" /\ x.stage = 5 =>
      /\ x.r_st = "live"
      /\ x.direct = x.acl_match
      /\ x.target = IF x.acl_match THEN "dest" ELSE "relay"
      /\ x.ev = "connect_started" => Sent(x.rbuf, 0, x.rbuf_len) = ExpectedUp(x)

\* C21: for a CONNECT to a domain name whose length byte is anything from 0
\* to 255 and which one read of at most BUF_SIZE bytes delivered whole, every
\* index written to the address header (name_len + 4 bytes), to the host
\* text (name_len + 1 bytes of 256) and to the outbound buffer of the remote
\* lies inside the array written.
C21_HeaderInBounds ==
  /\ hdr.pc \in {"built", "filled"} =>
       /\ hdr.addr_len = hdr.name_len + 4
       /\ \A i \in hdr.w_addr : 0 <= i /\ i < BUF_SIZE
       /\ \A i \in hdr.w_host : 0 <= i /\ i < HOST_SIZE
       /\ hdr.w_host # {} => Cardinality(hdr.w_host) = hdr.name_len + 1
  /\ hdr.pc = "filled" =>
       /\ \A i \in hdr.w_buf : 0 <= i /\ i < BUF_SIZE
       /\ hdr.r >= 0 /\ hdr.r <= BUF_SIZE

\* The longest name, in a full buffer, with the host text written.
C21_Witness ==
  /\ hdr.pc = "filled" /\ hdr.name_len = 255
  /\ Cardinality(hdr.w_host) = HOST_SIZE
  /\ hdr.r + 3 = BUF_SIZE /\ ~hdr.direct
  /\ BUF_SIZE - 4 \in hdr.w_buf

\* Session t is in the registry after the step.
InRegistryAfter(t) == Len(SelectSeq(connections', LAMBDA e : e = t))
\* A callback of session s ran in this step.
Ran(s) == S'[s] # S[s]
\* Session t has its first upstream send still ahead.
FirstSendAhead(t) == S[t].st = "live" /\ S[t].stage < 5
\* A callback of one session leaves the record of every other session and
\* its place in the registry as they were.
OthersUnchanged ==
  \A s \in Sessions : Ran(s) =>
    \A t \in Sessions \ {s} : S'[t] = S[t] /\ InRegistryAfter(t) = InRegistry(t)

\* C22 as stated: a callback of one session leaves the stage, buffers,
\* indices, watchers, timers, flags and registry membership of every other
\* session unchanged, and does not change the path (fast open or ordinary
\* connect) the first upstream send of another session takes.
C22_NoInterference ==
  [][/\ OthersUnchanged
     /\ \A s \in Sessions : Ran(s) =>
          \A t \in Sessions \ {s} : FirstSendAhead(t) => fast_open' = fast_open]_vars

\* C22, amended: a callback of one session leaves the record and the
\* registry membership of every other session unchanged; the one thing of
\* the process it may change is the flag fast_open, which only the ENOTCONN
\* of a session's own first sendto clears, for every session whose first
\* send is still ahead.
C22_OnlyFastOpenShared ==
  [][/\ OthersUnchanged
     /\ fast_open' # fast_open =>
          /\ fast_open /\ ~fast_open'
          /\ \E s \in Sessions : Ran(s) /\ S'[s].ev = "tfo_enotconn"
     /\ UNCHANGED <<acl, udprelay>>]_vars

\* The ENOTCONN of one session has cleared fast_open while another session
\* was still before its first upstream send.
C22_Witness ==
  \E s, t \in Sessions :
    /\ s # t /\ S[s].ev = "tfo_enotconn" /\ S[s].st = "dead"
    /\ S[t].st = "live" /\ S[t].stage = 1 /\ ~fast_open

\* The bytes taken for the upstream (through the cipher unless direct) and
\* not yet handed to its socket; the bytes read from the upstream and not yet
\* handed to the client's socket.
UnflushedUp(x) == (IF x.direct THEN x.n_in ELSE x.e_pos) - Len(x.u_out)
UnflushedDown(x) == x.n_up - Len(x.c_out)

\* C23: in each direction of a session, while the buffer of the direction
\* holds a residual its reader is disarmed and its writer armed; and the
\* reader is armed again only in a step of the writer's callback that leaves
\* the writer disarmed and buf_idx and buf_len at 0.
C23_Backpressure ==
  /\ [](\A s \in Sessions :
          Paired(S[s]) =>
            /\ UnflushedUp(S[s]) > 0 => ~S[s].s_rio /\ S[s].r_wio
            /\ UnflushedDown(S[s]) > 0 => ~S[s].r_rio /\ S[s].s_wio)
  /\ [][\A s \in Sessions :
          Paired(S[s]) /\ Paired(S'[s]) =>
            /\ ~S[s].s_rio /\ S'[s].s_rio =>
                 S[s].r_wio /\ ~S'[s].r_wio /\ S'[s].rbuf_len = 0 /\ S'[s].rbuf_idx = 0
            /\ ~S[s].r_rio /\ S'[s].r_rio /\ S[s].connected =>
                 S[s].s_wio /\ ~S'[s].s_wio /\ S'[s].sbuf_len = 0 /\ S'[s].sbuf_idx = 0]_vars

\* Session s awaits the completion of its connect.
AwaitsConnect(x) == x.r_st = "live" /\ ~x.connected /\ x.r_wio

\* C24: the write callback of a remote not yet marked connected either finds
\* the peer check failed and tears the session down, or marks the remote
\* connected, stops the connect timer, starts the idle timer and arms the
\* upstream reader; the inbound reader is armed again in that step only with
\* the writer disarmed and nothing buffered left unsent, and with an empty
\* buffer it is armed and nothing is torn down. The connected flag of a live
\* remote is never cleared.
C24_ConnectCompletion ==
  /\ [][\A s \in Sessions :
          AwaitsConnect(S[s]) /\ Ran(s) /\ S'[s].ev # "timeout" =>
            IF S'[s].ev = "getpeername_failed"
            THEN S'[s].st = "dead" /\ S'[s].r_st = "dead"
            ELSE /\ S[s].rbuf_len = 0 => Paired(S'[s]) /\ S'[s].s_rio /\ ~S'[s].r_wio
                 /\ S'[s].r_st = "live" =>
                      /\ S'[s].connected /\ ~S'[s].r_ctimer
                      /\ S'[s].r_itimer /\ S'[s].r_rio
                      /\ S'[s].s_rio =>
                           /\ ~S'[s].r_wio /\ S'[s].rbuf_len = 0
                           /\ UnflushedUp(S'[s]) <= 0]_vars
  /\ [][\A s \in Sessions :
          S[s].r_st = "live" /\ S'[s].r_st = "live" /\ S[s].connected => S'[s].connected]_vars

\* A connect started by the ordinary path has completed, the bytes buffered
\* meanwhile are out, and the inbound reader is armed again.
C24_Witness ==
  \E s \in Sessions :
    /\ ~fast_open /\ Paired(S[s]) /\ S[s].connected /\ ~S[s].direct
    /\ ~S[s].r_ctimer /\ S[s].r_itimer /\ S[s].r_rio
    /\ S[s].s_rio /\ ~S[s].r_wio /\ S[s].u_out = ExpectedUp(S[s])
    /\ Len(S[s].u_out) > 0 /\ S[s].n_up = 0

\* C25: while a session awaits the completion of its connect (remote not
\* marked connected, upstream writer armed) the inbound reader is disarmed,
\* the first bytes are pending from offset 0 and the one-shot connect timer
\* runs, whether the connect was started by connect() or by a fast open
\* sendto that returned EINPROGRESS.
C25_PendingConnectTimed ==
  \A s \in Sessions :
    AwaitsConnect(S[s]) =>
      /\ ~S[s].s_rio
      /\ S[s].rbuf_idx = 0
      /\ S[s].r_ctimer

\* What a callback sees when a session cannot go on: a read of 0 bytes, an
\* error other than EAGAIN of a recv or a send, no output of the cipher, a
\* success reply not sent whole, a failed peer check.
FatalEvents ==
  { "server_eof", "remote_eof", "server_recv_error", "remote_recv_error",
    "relay_send_error", "remote_recv_send_error", "remote_send_error",
    "server_send_error", "tfo_error", "tfo_enotconn", "encrypt_null",
    "decrypt_null", "reply_short", "reply_eagain", "getpeername_failed" }

\* The handshake sends and the first upstream send a session has on record.
SendsOnRecord(x) == SelectSeq(x.obs, LAMBDA e : e.k \in {"send", "usend"})

\* C26: the callback that meets a fatal event leaves both endpoints of the
\* session destroyed, each closed once, the server out of the registry and
\* every watcher and timer stopped, and makes no send after the event: the
\* only send the callback may have on record is the success reply of stage
\* 1, made before the event or being the send that failed, and no byte goes
\* to the upstream.
C26_FatalTearsDown ==
  /\ [](\A s \in Sessions :
          S[s].ev \in FatalEvents =>
            /\ S[s].st = "dead" /\ S[s].r_st # "live" /\ AllStopped(S[s])
            /\ S[s].s_closes = 1 /\ S[s].r_closes <= 1 /\ InRegistry(s) = 0
            /\ S[s].stage = 5 /\ S[s].ev \notin {"reply_short", "reply_eagain"}
                 => S[s].r_closes = 1)
  /\ [][\A s \in Sessions :
          Ran(s) /\ S'[s].ev \in FatalEvents =>
            LET before == SendsOnRecord(S[s])
                after == SendsOnRecord(S'[s]) IN
            IF S[s].stage = 1 /\ S'[s].ev \notin {"server_eof", "server_recv_error"}
            THEN /\ Len(after) = Len(before) + 1 /\ IsPrefix(before, after)
                 /\ after[Len(after)].k = "send"
                 /\ SubSeq(after[Len(after)].b, 1, 4) = <<SVERSION, 0, 0, 1>>
            ELSE after = before]_vars

\* A fatal event has torn a session down: the cipher gave no
\* output for bytes of a connected upstream.
C26_Witness ==
  \E s \in Sessions :
    /\ S[s].ev = "decrypt_null" /\ S[s].st = "dead" /\ S[s].r_st = "dead"
    /\ S[s].s_closes = 1 /\ S[s].r_closes = 1

\* C27: in every state of a session the inbound reader and the upstream
\* writer are not both armed, the upstream reader and the inbound writer are
\* not both armed, and the upstream reader is armed only when the remote is
\* marked connected.
C27_DirectionExclusion ==
  \A s \in Sessions :
    LET x == S[s] IN
    /\ ~(x.s_rio /\ x.r_wio)
    /\ ~(x.r_rio /\ x.s_wio)
    /\ x.r_rio => x.connected

\* Both directions of a connected session are blocked on their writers.
C27_Witness ==
  \E s \in Sessions :
    /\ Paired(S[s]) /\ S[s].connected
    /\ ~S[s].s_rio /\ S[s].r_wio /\ ~S[s].r_rio /\ S[s].s_wio
    /\ S[s].rbuf_len > 0 /\ S[s].sbuf_len > 0

\* How server_recv_cb may end when it has moved the stage.
StageMoveEvents ==
  TfoEvents \cup { "greeting", "connect_started", "encrypt_null", "reply_short",
                   "reply_eagain", "remote_null", "null_deref" }

\* C28: the stage of a live server endpoint moves only from 0 to 1 and from
\* 1 to 5, each time in a run of the inbound read callback; whenever a
\* callback has returned, a live server has a remote exactly when its stage
\* is 5; and the 'invalid remote' branch of stage 5 is never taken.
C28_StageDiscipline ==
  /\ [][\A s \in Sessions :
          S[s].st = "live" /\ S'[s].stage # S[s].stage =>
            /\ <<S[s].stage, S'[s].stage>> \in {<<0, 1>>, <<1, 5>>}
            /\ S[s].s_rio /\ S'[s].ev \in StageMoveEvents]_vars
  /\ [](\A s \in Sessions :
          /\ S[s].stage \in {0, 1, 5}
          /\ S[s].st = "live" /\ ~crashed =>
               /\ S[s].s_remote <=> S[s].stage = 5
               /\ S[s].s_remote <=> S[s].r_st = "live"
               /\ S[s].s_remote => S[s].r_server
          /\ S[s].ev # "invalid_remote")

\* A server that has gone through both moves and relays with its remote.
C28_Witness ==
  \E s \in Sessions :
    /\ S[s].st = "live" /\ S[s].stage = 5 /\ S[s].s_remote /\ S[s].r_server
    /\ Len(Sends(S[s])) = 2 /\ S[s].n_in > 0

\* C29: the shutdown sweep reads no field of an endpoint it has freed: the
\* cursor it goes on with is the item that followed in the list, never what a
\* freed item happens to hold; and it closes the remote of every session
\* once, and no endpoint twice.
C29_SweepReadsNoFreed ==
  /\ [][~running /\ curr.k = "at" /\ curr' # curr =>
          curr' = ListNext(connections, curr.s)]_vars
  /\ [](\A s \in Sessions :
          /\ S[s].s_closes <= 1 /\ S[s].r_closes <= 1
          /\ S[s].ev = "swept" =>
               /\ S[s].st = "dead" /\ S[s].s_closes = 1
               /\ S[s].stage = 5 <=> S[s].r_closes = 1)

\* C30: when connect_to_remote gives no remote for a CONNECT, on the relay
\* branch and on the direct branch alike, no field of the missing remote is
\* accessed (the process does not die on a null pointer), the server is torn
\* down and out of the registry, and no success reply has gone to the client.
C30_RemoteCreationFailure ==
  \A s \in Sessions :
    S[s].ev \in {"remote_null", "null_deref"} =>
      /\ ~crashed
      /\ S[s].st = "dead" /\ S[s].s_closes = 1 /\ InRegistry(s) = 0
      /\ S[s].r_st = "none"
      /\ Sends(S[s]) = <<[k |-> "send", b |-> MethodSelectResponse]>>

====
